---- MODULE Spec2Model ----
(***************************************************************************)
(* A model of the pantry ledger engine, src/src/pantry_manager.py          *)
(* (class PantryManager) over the entities of src/src/pantry_models.py.    *)
(*                                                                         *)
(* Python objects have identity: an InventoryItem built by                 *)
(* add_food_donation is referenced both from the donation's details and,   *)
(* when it opens a new line, from self.inventory.  The model keeps every   *)
(* InventoryItem in the sequence `objects`; inventory and the details of   *)
(* Food donations hold indices into it (references).                       *)
(***************************************************************************)
EXTENDS Integers, Sequences, FiniteSets, TLC

(***************************************************************************)
(* Bounds of the model.                                                    *)
(***************************************************************************)
MaxObjects == 2        \* InventoryItem objects ever constructed
MaxDetail == 2         \* items in one food donation
MaxDonations == 2      \* entries of donations_log
MaxQuantity == 1       \* largest donated quantity
MaxTaken == 2          \* items in one distribution request
MaxTake == 2           \* largest requested quantity
MaxHouseholds == 2     \* households signed in during the session
MaxDistributions == 1  \* entries of distributions_log
MaxRecords == 2        \* records of a distributions.json found at start-up
MaxQueued == 3         \* households signed in where the queue is what is looked at

(***************************************************************************)
(* Inputs.                                                                 *)
(***************************************************************************)
\* The lines that can be donated: two spellings of one name on one date, the
\* same name on a second date, and a second name.
Lines ==
    {<<"Rice", "2025-12-01">>, <<"rice", "2025-12-01">>,
     <<"Rice", "2026-01-01">>, <<"Beans", "2025-12-01">>}
Donors == {"Alice"}

MoneyAmounts == {5}
Today == "today"

\* str.lower() on the names in use (pantry_manager.py:143, 210)
lower(s) ==
    CASE s = "Rice" -> "rice"
      [] s = "rice" -> "rice"
      [] s = "Beans" -> "beans"
      [] OTHER -> s

\* A raw quantity as a caller passes it: an integer, or text that is no number.
Num(n) == [kind |-> "int", val |-> n]
NonNumeric == [kind |-> "str", val |-> 0]

\* A fault of pantry_models.py:5: the quantity is stored without int()
IsNumericAny(raw) == raw.kind \in {"int", "str"}

\* int(quantity) succeeds (pantry_models.py:5)
IsNumeric(raw) == raw.kind = "int"

\* int(quantity) on a value it accepts (pantry_models.py:5)
ToInt(raw) == raw.val

\* The exceptions the engine raises: all are Python ValueError, told apart
\* only by their message.
NoError == [type |-> "none", msg |-> "none"]
ValueError(m) == [type |-> "ValueError", msg |-> m]

\* The three files of the data folder (pantry_manager.py:37-39)
FileNames == {"inventory", "donations", "distributions"}

\* What a file can be on disk when it is read: not there; a JSON list, as
\* _save_data writes it; text that is no JSON (an empty or truncated file
\* among others); bytes that are no text in the encoding open() reads with.
FileStatuses == {"absent", "json", "garbled", "undecodable"}

\* What json.load raises on bytes it cannot decode: a ValueError that is
\* no JSONDecodeError
UnicodeDecodeError == [type |-> "UnicodeDecodeError", msg |-> "can't decode byte"]

\* Inputs of sign_in_household: the name and raw size of the k-th household
\* to arrive.  Consecutive arrivals differ in both.
Arrival(k) == IF k % 2 = 1 THEN <<"Smith", Num(4)>> ELSE <<"Jones", Num(1)>>

\* Every sequence over S of length at most n
SeqsUpTo(S, n) == UNION {[1..k -> S] : k \in 0..n}

\* Inputs of add_food_donation: item_data dictionaries, quantities raw.
\* One of them donates nothing, on a date of its own.
FoodItemData ==
    {[name |-> l[1], quantity |-> Num(q), expiration_date |-> l[2]] :
        l \in Lines, q \in 1..MaxQuantity}
    \cup {[name |-> "Beans", quantity |-> Num(0), expiration_date |-> "2026-01-01"]}

\* A request whose second item has a quantity int() rejects
BadFoodRequest ==
    <<[name |-> "Beans", quantity |-> Num(1), expiration_date |-> "2025-12-01"],
      [name |-> "Rice", quantity |-> NonNumeric, expiration_date |-> "2025-12-01"]>>

\* Inputs of record_distribution: item_taken dictionaries.  The requested
\* names are spelled as typed, not as stored.
TakeNames == {"rice", "Beans"}
ItemTakenData == [name : TakeNames, quantity : 1..MaxTake]

VARIABLES
    objects,            \* every InventoryItem object, by reference
    inventory,          \* self.inventory: references into objects
    donations_log,      \* self.donations_log
    distributions_log,  \* self.distributions_log
    household_queue,    \* self.household_queue
    next_household_id,  \* self._next_household_id
    inventory_file,     \* contents of inventory.json
    donations_file,     \* contents of donations.json
    distributions_file, \* contents of distributions.json
    file_status,        \* what each of the three files is on disk
    result,             \* the last call and how it ended
    returned_ids        \* history: ids returned by sign_in_household, in order

vars == <<objects, inventory, donations_log, distributions_log, household_queue,
          next_household_id, inventory_file, donations_file, distributions_file,
          file_status, result, returned_ids>>

\* The engine and its files as one value: what a call reads and what it leaves.
Current ==
    [objects |-> objects,
     inventory |-> inventory,
     donations_log |-> donations_log,
     distributions_log |-> distributions_log,
     household_queue |-> household_queue,
     next_household_id |-> next_household_id,
     inventory_file |-> inventory_file,
     donations_file |-> donations_file,
     distributions_file |-> distributions_file,
     file_status |-> file_status]

\* A call that returned normally, leaving s
Returned(s) == [state |-> s, err |-> NoError]

\* A call that raised e, leaving s
Raised(s, e) == [state |-> s, err |-> e]

----------------------------------------------------------------------------
(***************************************************************************)
(* Entities and serialisation (pantry_models.py).                          *)
(***************************************************************************)

\* InventoryItem.__init__
InventoryItem(name, quantity, expiration_date) ==
    [name |-> name, quantity |-> ToInt(quantity), expiration_date |-> expiration_date]

\* InventoryItem.to_dict
ItemToDict(item) ==
    [name |-> item.name, quantity |-> item.quantity,
     expiration_date |-> item.expiration_date]

\* Donation.__init__
Donation(donor, donation_type, details, date) ==
    [donor |-> donor, type |-> donation_type, details |-> details, date |-> date]

\* Donation.to_dict, reading the items the details refer to
DonationToDict(objs, d) ==
    [donor |-> d.donor,
     type |-> d.type,
     details |-> IF d.type = "Food"
                 THEN [i \in 1..Len(d.details) |-> ItemToDict(objs[d.details[i]])]
                 ELSE d.details,
     date |-> d.date]

\* Household.__init__
Household(household_id, name, size) ==
    [id |-> household_id, name |-> name, size |-> ToInt(size)]

----------------------------------------------------------------------------
(***************************************************************************)
(* Persistence (PantryManager._save_data, pantry_manager.py:104-122).      *)
(***************************************************************************)

\* Lines 109-111
InventoryToSave(objs, inv) == [i \in 1..Len(inv) |-> ItemToDict(objs[inv[i]])]

\* Lines 115-117
DonationsToSave(objs, log) == [i \in 1..Len(log) |-> DonationToDict(objs, log[i])]

\* _save_data: all three files are rewritten from memory
save_data(s) ==
    [s EXCEPT !.inventory_file = InventoryToSave(s.objects, s.inventory),
              !.donations_file = DonationsToSave(s.objects, s.donations_log),
              !.distributions_file = s.distributions_log,
              !.file_status = [f \in FileNames |-> "json"]]

(***************************************************************************)
(* Start-up (PantryManager.__init__ and _load_all_data,                    *)
(* pantry_manager.py:31-89).  Every InventoryItem of the new engine is a   *)
(* fresh object: the heap is rebuilt from the files.                       *)
(***************************************************************************)

\* _read_json raises: open() and json.load are inside the try (lines
\* 98-100), but line 101 catches JSONDecodeError and FileNotFoundError
\* only, and bytes that cannot be decoded raise UnicodeDecodeError
ReadRaises(status) == status = "undecodable"

\* _read_json when it returns: the list a JSON file holds (lines 99-100),
\* the empty list for a file that is not there (lines 96-97) or that is no
\* JSON (lines 101-102)
read_json(status, file) ==
    IF status = "json" THEN [i \in 1..Len(file) |-> file[i]] ELSE <<>>

\* A fault of lines 60-64 and 76: the quantity is not taken from the file
ItemFromDictNoQuantity(data) ==
    InventoryItem(data.name, Num(0), data.expiration_date)

\* An item dictionary of a file made an object again (lines 60-64, 76)
ItemFromDict(data) ==
    InventoryItem(data.name, Num(data.quantity), data.expiration_date)

\* Lines 57-65: one InventoryItem per saved line
LoadInventory(inventory_data) ==
    [i \in 1..Len(inventory_data) |-> ItemFromDict(inventory_data[i])]

\* Lines 67-87, from the k-th saved donation on: the details of a Food
\* donation become objects of their own, a Money donation keeps its number.
RECURSIVE LoadDonations(_, _, _, _)
LoadDonations(objs, log, donations_data, k) ==
    IF k > Len(donations_data)
    THEN [objects |-> objs, donations_log |-> log]
    ELSE LET data == donations_data[k]
             n == IF data.type = "Food" THEN Len(data.details) ELSE 0
             item_objs == [i \in 1..n |-> ItemFromDict(data.details[i])]
             donation_details == IF data.type = "Food"
                                 THEN [i \in 1..n |-> Len(objs) + i]
                                 ELSE data.details
         IN LoadDonations(objs \o item_objs,
                          Append(log, Donation(data.donor, data.type,
                                               donation_details, data.date)),
                          donations_data, k + 1)

\* _load_all_data: memory is replaced by what the three files hold
load_all_data(s) ==
    LET items == LoadInventory(read_json(s.file_status["inventory"],
                                         s.inventory_file))
        loaded == LoadDonations(items, <<>>,
                                read_json(s.file_status["donations"],
                                          s.donations_file), 1)
    IN [s EXCEPT !.objects = loaded.objects,
                 !.inventory = [i \in 1..Len(items) |-> i],
                 !.donations_log = loaded.donations_log,
                 !.distributions_log = read_json(s.file_status["distributions"],
                                                 s.distributions_file)]

\* No engine: the constructor raised and left no object behind
NoEngine(s) ==
    [s EXCEPT !.objects = <<>>, !.inventory = <<>>, !.donations_log = <<>>,
              !.distributions_log = <<>>, !.household_queue = <<>>,
              !.next_household_id = 1]

\* _load_all_data raises what one of its three reads raises (lines 57, 67, 89)
LoadRaises(s) == \E f \in FileNames : ReadRaises(s.file_status[f])

\* A fault of lines 48-49: the queue and the counter of the engine before
\* are kept
PantryManager_init_keep_queue(s) ==
    IF LoadRaises(s)
    THEN Raised(NoEngine(s), UnicodeDecodeError)
    ELSE Returned(load_all_data(s))

\* __init__: load, then an empty queue and the counter at 1 (lines 44-49)
PantryManager_init(s) ==
    IF LoadRaises(s)
    THEN Raised(NoEngine(s), UnicodeDecodeError)
    ELSE Returned([load_all_data(s) EXCEPT !.household_queue = <<>>,
                                           !.next_household_id = 1])

----------------------------------------------------------------------------
(***************************************************************************)
(* add_food_donation (pantry_manager.py:124-154).                          *)
(***************************************************************************)

\* A fault of lines 143-144: names compared as spelled
SameLineExact(existing_item, new_item) ==
    /\ existing_item.name = new_item.name
    /\ existing_item.expiration_date = new_item.expiration_date

\* The merge test of lines 143-144
SameLine(existing_item, new_item) ==
    /\ lower(existing_item.name) = lower(new_item.name)
    /\ existing_item.expiration_date = new_item.expiration_date

\* Lines 142-147: position in inv of the first line new_item merges into, 0 if none
FindSameLine(objs, inv, new_item) ==
    LET hits == {j \in 1..Len(inv) : SameLine(objs[inv[j]], new_item)}
    IN IF hits = {} THEN 0 ELSE CHOOSE j \in hits : \A h \in hits : j <= h

\* A fault of line 145: the donated quantity is stored, not added
IncreaseReplace(quantity, by) == by

\* A fault of line 145: the donated quantity is subtracted
IncreaseMinus(quantity, by) == quantity - by

\* Line 145: existing_item.quantity += new_item.quantity
Increase(quantity, by) == quantity + by

\* Lines 140-149, from the k-th donated item on.  ids are the references of
\* the donated items; a new line is the donated object itself.
RECURSIVE MergeLoop(_, _, _, _)
MergeLoop(objs, inv, ids, k) ==
    IF k > Len(ids)
    THEN [objects |-> objs, inventory |-> inv]
    ELSE LET new_item == objs[ids[k]]
             j == FindSameLine(objs, inv, new_item)
         IN IF j # 0
            THEN MergeLoop([objs EXCEPT ![inv[j]].quantity =
                                Increase(@, new_item.quantity)], inv, ids, k + 1)
            ELSE MergeLoop(objs, Append(inv, ids[k]), ids, k + 1)

add_food_donation(s, donor_name, food_item_data) ==
    IF \E i \in 1..Len(food_item_data) : ~IsNumeric(food_item_data[i].quantity)
    THEN \* int() raises while the items are built: nothing was touched yet
         Raised(s, ValueError("invalid literal for int()"))
    ELSE LET n == Len(food_item_data)
             donated_items ==
                 [i \in 1..n |-> InventoryItem(food_item_data[i].name,
                                               food_item_data[i].quantity,
                                               food_item_data[i].expiration_date)]
             ids == [i \in 1..n |-> Len(s.objects) + i]
             merged == MergeLoop(s.objects \o donated_items, s.inventory, ids, 1)
             donation == Donation(donor_name, "Food", ids, Today)
         IN Returned(save_data(
                [s EXCEPT !.objects = merged.objects,
                          !.inventory = merged.inventory,
                          !.donations_log = Append(@, donation)]))

(***************************************************************************)
(* add_money_donation (pantry_manager.py:156-161).                         *)
(***************************************************************************)
add_money_donation(s, donor_name, amount) ==
    Returned(save_data(
        [s EXCEPT !.donations_log =
                      Append(@, Donation(donor_name, "Money", amount, Today))]))

(***************************************************************************)
(* sign_in_household (pantry_manager.py:163-171).                          *)
(***************************************************************************)

\* A fault of line 170: the counter is left as it was
NextIdSame(id) == id

\* Line 170: self._next_household_id += 1
NextId(id) == id + 1

sign_in_household(s, household_name, household_size) ==
    IF ~IsNumeric(household_size)
    THEN \* int(size) raises in Household.__init__
         Raised(s, ValueError("invalid literal for int()"))
    ELSE Returned([s EXCEPT !.household_queue =
                                Append(@, Household(s.next_household_id,
                                                    household_name, household_size)),
                            !.next_household_id = NextId(@)])

(***************************************************************************)
(* remove_household_from_queue (pantry_manager.py:173-187).                *)
(***************************************************************************)

\* A fault of lines 180 and 197: the id taken for a position in the queue
FindHouseholdByPosition(q, household_id) ==
    IF household_id \in 1..Len(q) THEN household_id ELSE 0

\* Lines 179-182 and 196-199: position of the first household with this id, 0 if none
FindHousehold(q, household_id) ==
    LET hits == {i \in 1..Len(q) : q[i].id = household_id}
    IN IF hits = {} THEN 0 ELSE CHOOSE i \in hits : \A h \in hits : i <= h

\* A fault of lines 185 and 228: the head of the queue is removed
RemoveFirst(q, i) == [k \in 1..(Len(q) - 1) |-> q[k + 1]]

\* A fault of lines 185 and 228: the last household takes the place of the
\* one removed
RemoveAtSwap(q, i) ==
    [k \in 1..(Len(q) - 1) |-> IF k = i THEN q[Len(q)] ELSE q[k]]

\* list.remove of the element at position i (lines 185, 228)
RemoveAt(q, i) == [k \in 1..(Len(q) - 1) |-> IF k < i THEN q[k] ELSE q[k + 1]]

remove_household_from_queue(s, household_id) ==
    LET i == FindHousehold(s.household_queue, household_id)
    IN IF i # 0
       THEN Returned([s EXCEPT !.household_queue = RemoveAt(@, i)])
       ELSE Raised(s, ValueError("Could not find household to remove"))

(***************************************************************************)
(* record_distribution (pantry_manager.py:189-230).                        *)
(***************************************************************************)

\* A fault of line 210: names compared as spelled
MatchesNameExact(i, item_taken) == i.name = item_taken.name

\* Line 210: i.name.lower() == item_taken['name'].lower()
MatchesName(i, item_taken) == lower(i.name) = lower(item_taken.name)

\* A fault of lines 208-212: a line too short for the request is passed over
FindInStockEnough(objs, inv, item_taken) ==
    LET hits == {j \in 1..Len(inv) :
                    /\ lower(objs[inv[j]].name) = lower(item_taken.name)
                    /\ objs[inv[j]].quantity >= item_taken.quantity}
    IN IF hits = {} THEN 0 ELSE CHOOSE j \in hits : \A h \in hits : j <= h

\* Lines 208-212: position in inv of the first line of that name, 0 if none
FindInStock(objs, inv, item_taken) ==
    LET hits == {j \in 1..Len(inv) : MatchesName(objs[inv[j]], item_taken)}
    IN IF hits = {} THEN 0 ELSE CHOOSE j \in hits : \A h \in hits : j <= h

\* A fault of line 216: only an empty line counts as short
InsufficientOutOfStock(item_in_stock, item_taken) == item_in_stock.quantity < 1

\* Line 216: item_in_stock.quantity < item_taken['quantity']
Insufficient(item_in_stock, item_taken) == item_in_stock.quantity < item_taken.quantity

\* A fault of line 219: the stock is checked but not taken
DecreaseNothing(quantity, by) == quantity

\* Line 219: item_in_stock.quantity -= item_taken['quantity']
Decrease(quantity, by) == quantity - by

\* Lines 207-219, from the k-th requested item on: each item is looked up,
\* checked and taken before the next one is looked at.
RECURSIVE TakeLoop(_, _, _, _)
TakeLoop(objs, inv, items_taken_data, k) ==
    IF k > Len(items_taken_data)
    THEN [objects |-> objs, err |-> NoError]
    ELSE LET item_taken == items_taken_data[k]
             j == FindInStock(objs, inv, item_taken)
         IN IF j = 0
            THEN [objects |-> objs, err |-> ValueError("Item not found in inventory")]
            ELSE IF Insufficient(objs[inv[j]], item_taken)
            THEN [objects |-> objs, err |-> ValueError("Insufficient stock")]
            ELSE TakeLoop([objs EXCEPT ![inv[j]].quantity =
                               Decrease(@, item_taken.quantity)],
                          inv, items_taken_data, k + 1)

\* Lines 221-226
DistributionRecord(household, items_taken_data) ==
    [household_name |-> household.name,
     household_size |-> household.size,
     items |-> items_taken_data,
     date |-> Today]

record_distribution(s, household_id, items_taken_data) ==
    LET h == FindHousehold(s.household_queue, household_id)
    IN IF h = 0
       THEN Raised(s, ValueError("Household not found in queue"))
       ELSE LET taken == TakeLoop(s.objects, s.inventory, items_taken_data, 1)
            IN IF taken.err # NoError
               THEN \* raised inside the loop: what was taken so far stays taken
                    Raised([s EXCEPT !.objects = taken.objects], taken.err)
               ELSE Returned(save_data(
                        [s EXCEPT !.objects = taken.objects,
                                  !.distributions_log =
                                      Append(@, DistributionRecord(
                                                    s.household_queue[h],
                                                    items_taken_data)),
                                  !.household_queue = RemoveAt(@, h)]))

(***************************************************************************)
(* Queries: get_inventory (pantry_manager.py:232-233) and the views that   *)
(* display it (src/src/app_gui.py:523-530 and 567-570,                     *)
(* src/backend.py:98-108).                                                 *)
(***************************************************************************)

\* get_inventory: the list itself, here by value
get_inventory(s) == [i \in 1..Len(s.inventory) |-> s.objects[s.inventory[i]]]

\* What can be typed in the search box, and Python's `term in name` on a
\* lowercased term and the lowercased names in use (app_gui.py:526, 529)
SearchTerms == {"", "ri", "b"}
Contains(name, term) ==
    CASE term = "" -> TRUE
      [] term = "ri" -> name = "rice"
      [] term = "b" -> name = "beans"
      [] OTHER -> FALSE

\* A fault of app_gui.py:529 and 569, backend.py:106: every line is listed
ShownAll(quantity) == TRUE

\* item.quantity > 0 (app_gui.py:529 and 569, backend.py:106)
Shown(quantity) == quantity > 0

\* AppGUI._refresh_inventory_view: the rows (name, quantity) of the tree
refresh_inventory_view(s, search_term) ==
    LET Listed(item) ==
            Shown(item.quantity) /\ Contains(lower(item.name), search_term)
        rows == SelectSeq(get_inventory(s), Listed)
    IN [i \in 1..Len(rows) |-> <<rows[i].name, rows[i].quantity>>]

\* The inventory window (app_gui.py:567-570): rows (name, quantity, date)
inventory_window(s) ==
    LET Listed(item) == Shown(item.quantity)
        rows == SelectSeq(get_inventory(s), Listed)
    IN [i \in 1..Len(rows) |->
           <<rows[i].name, rows[i].quantity, rows[i].expiration_date>>]

\* backend.view_inventory on the dictionaries of inventory.json: the items
\* it prints, or the one line that says the inventory is empty
view_inventory(inventory_data) ==
    LET Listed(item) == Shown(item.quantity)
        rows == SelectSeq(inventory_data, Listed)
    IN IF inventory_data = <<>>
       THEN <<"Inventory is empty.">>
       ELSE [i \in 1..Len(rows) |->
                <<rows[i].name, rows[i].quantity, rows[i].expiration_date>>]

(***************************************************************************)
(* get_pantry_status (pantry_manager.py:238-243).                          *)
(***************************************************************************)

\* A fault of line 242: every line is counted, whatever it holds
get_pantry_status_every_line(s) ==
    [households_waiting |-> Len(s.household_queue),
     unique_items_in_inventory |-> Len(s.inventory)]

get_pantry_status(s) ==
    LET InStock(item) == item.quantity > 0
    IN [households_waiting |-> Len(s.household_queue),
        unique_items_in_inventory |-> Len(SelectSeq(get_inventory(s), InStock))]

(***************************************************************************)
(* get_analytics_data (pantry_manager.py:245-261).  A Python dict keeps    *)
(* its keys in insertion order: it is modelled as the sequence of its      *)
(* (name, count) entries.                                                  *)
(***************************************************************************)

\* A fault of lines 253-255: names that differ in case share a key
SameKeyIgnoringCase(key, name) == lower(key) = lower(name)

\* Lines 253-255: item_counts is keyed by the name as written
SameKey(key, name) == key = name

\* Line 255: item_counts[name] = item_counts.get(name, 0) + quantity
CountItem(item_counts, item) ==
    LET hits == {k \in 1..Len(item_counts) : SameKey(item_counts[k][1], item.name)}
    IN IF hits = {}
       THEN Append(item_counts, <<item.name, item.quantity>>)
       ELSE LET k == CHOOSE h \in hits : TRUE
            IN [item_counts EXCEPT ![k] = <<@[1], @[2] + item.quantity>>]

\* Line 252, from the i-th item of a record on
RECURSIVE CountRecord(_, _, _)
CountRecord(item_counts, items, i) ==
    IF i > Len(items) THEN item_counts
    ELSE CountRecord(CountItem(item_counts, items[i]), items, i + 1)

\* Lines 250-255, from the n-th record of the log on
RECURSIVE CountLog(_, _, _)
CountLog(item_counts, log, n) ==
    IF n > Len(log) THEN item_counts
    ELSE CountLog(CountRecord(item_counts, log[n].items, 1), log, n + 1)

\* A fault of line 259: an entry goes before those it ties with
GoesBeforeOrTies(count, other) == count >= other

\* Line 259, key=lambda x: x[1], reverse=True: an entry goes before those
\* with a smaller count
GoesBefore(count, other) == count > other

\* sorted() is stable, also with reverse=True: an entry is placed after
\* every earlier entry it does not go before
SortedInsert(sorted_items, entry) ==
    LET after == {k \in 1..Len(sorted_items) :
                     GoesBefore(entry[2], sorted_items[k][2])}
        at == IF after = {} THEN Len(sorted_items) + 1
              ELSE CHOOSE k \in after : \A j \in after : k <= j
    IN SubSeq(sorted_items, 1, at - 1) \o <<entry>>
           \o SubSeq(sorted_items, at, Len(sorted_items))

\* Line 259, from the k-th entry of item_counts on
RECURSIVE Sorted(_, _, _)
Sorted(sorted_items, entries, k) ==
    IF k > Len(entries) THEN sorted_items
    ELSE Sorted(SortedInsert(sorted_items, entries[k]), entries, k + 1)

get_analytics_data(s) == Sorted(<<>>, CountLog(<<>>, s.distributions_log, 1), 1)

----------------------------------------------------------------------------
(***************************************************************************)
(* The engine as a state machine: one step is one call, run to its end.    *)
(***************************************************************************)

\* PantryManager.__init__ on an empty data folder (pantry_manager.py:31-49)
Init ==
    /\ objects = <<>>
    /\ inventory = <<>>
    /\ donations_log = <<>>
    /\ distributions_log = <<>>
    /\ household_queue = <<>>
    /\ next_household_id = 1
    /\ inventory_file = <<>>
    /\ donations_file = <<>>
    /\ distributions_file = <<>>
    /\ file_status = [f \in FileNames |-> "absent"]
    /\ result = [op |-> "init", err |-> NoError]
    /\ returned_ids = <<>>

\* The call op ended as r says
Call(op, r) ==
    /\ objects' = r.state.objects
    /\ inventory' = r.state.inventory
    /\ donations_log' = r.state.donations_log
    /\ distributions_log' = r.state.distributions_log
    /\ household_queue' = r.state.household_queue
    /\ next_household_id' = r.state.next_household_id
    /\ inventory_file' = r.state.inventory_file
    /\ donations_file' = r.state.donations_file
    /\ distributions_file' = r.state.distributions_file
    /\ file_status' = r.state.file_status
    /\ result' = [op |-> op, err |-> r.err]

AddFoodDonation(donor_name, food_item_data) ==
    \E r \in {add_food_donation(Current, donor_name, food_item_data)} :
       /\ r.err = NoError =>
            /\ Len(donations_log) < MaxDonations
            /\ Len(objects) + Len(food_item_data) <= MaxObjects
       /\ Call("add_food_donation", r)
       /\ UNCHANGED returned_ids

AddMoneyDonation(donor_name, amount) ==
    /\ Len(donations_log) < MaxDonations
    /\ \E r \in {add_money_donation(Current, donor_name, amount)} :
          Call("add_money_donation", r)
    /\ UNCHANGED returned_ids

SignInHousehold(household_name, household_size) ==
    \E r \in {sign_in_household(Current, household_name, household_size)} :
       /\ next_household_id <= MaxHouseholds
       /\ Call("sign_in_household", r)
       /\ returned_ids' = IF r.err = NoError
                          THEN Append(returned_ids,
                                      r.state.household_queue[
                                          Len(r.state.household_queue)].id)
                          ELSE returned_ids

RemoveHouseholdFromQueue(household_id) ==
    /\ \E r \in {remove_household_from_queue(Current, household_id)} :
          Call("remove_household_from_queue", r)
    /\ UNCHANGED returned_ids

RecordDistribution(household_id, items_taken_data) ==
    \E r \in {record_distribution(Current, household_id, items_taken_data)} :
       /\ r.err = NoError => Len(distributions_log) < MaxDistributions
       /\ Call("record_distribution", r)
       /\ UNCHANGED returned_ids

\* The requests a caller can make
FoodRequests == SeqsUpTo(FoodItemData, MaxDetail) \cup {BadFoodRequest}
TakeRequests == SeqsUpTo(ItemTakenData, MaxTaken)
HouseholdIds == 1..MaxHouseholds

Next ==
    \/ \E d \in Donors, data \in FoodRequests : AddFoodDonation(d, data)
    \/ \E d \in Donors, a \in MoneyAmounts : AddMoneyDonation(d, a)
    \/ \E hh \in {Arrival(Len(returned_ids) + 1)} : SignInHousehold(hh[1], hh[2])
    \/ \E id \in HouseholdIds : RemoveHouseholdFromQueue(id)
    \/ \E id \in HouseholdIds, taken \in TakeRequests : RecordDistribution(id, taken)

Spec == Init /\ [][Next]_vars

(***************************************************************************)
(* The engine across sessions: the process ends and a new PantryManager is *)
(* constructed on the same data folder.                                    *)
(***************************************************************************)
Restart ==
    /\ \E r \in {PantryManager_init(Current)} : Call("__init__", r)
    /\ returned_ids' = <<>>

\* One item per donation and per distribution, to leave room for sessions
SessionFoodRequests == SeqsUpTo(FoodItemData, 1)
SessionTakeRequests == SeqsUpTo(ItemTakenData, 1)

NextSessions ==
    \/ \E d \in Donors, data \in SessionFoodRequests : AddFoodDonation(d, data)
    \/ \E d \in Donors, a \in MoneyAmounts : AddMoneyDonation(d, a)
    \/ \E hh \in {Arrival(Len(returned_ids) + 1)} : SignInHousehold(hh[1], hh[2])
    \/ \E id \in HouseholdIds : RemoveHouseholdFromQueue(id)
    \/ \E id \in HouseholdIds, taken \in SessionTakeRequests :
          RecordDistribution(id, taken)
    \/ Restart

SpecSessions == Init /\ [][NextSessions]_vars

(***************************************************************************)
(* Start-up on a data folder as found: each file is absent, holds what an  *)
(* earlier engine saved, or is damaged.  The first step constructs the     *)
(* engine; when the constructor raises there is no engine to call.         *)
(***************************************************************************)

\* What an earlier engine can have saved
FoundInventory ==
    {<<>>, <<[name |-> "Rice", quantity |-> 1, expiration_date |-> "2025-12-01"]>>}
FoundDonations ==
    {<<>>,
     <<[donor |-> "Alice", type |-> "Food",
        details |-> <<[name |-> "Rice", quantity |-> 1,
                       expiration_date |-> "2025-12-01"]>>,
        date |-> Today]>>,
     <<[donor |-> "Alice", type |-> "Money", details |-> 5, date |-> Today]>>}
FoundDistributions ==
    {<<>>,
     <<[household_name |-> "Smith", household_size |-> 4,
        items |-> <<[name |-> "rice", quantity |-> 1]>>, date |-> Today]>>}

\* The contents the model gives a file of that status: a list for a JSON
\* file, nothing it can read for any other
Found(status, lists) == IF status = "json" THEN lists ELSE {<<>>}

InitStartup ==
    /\ objects = <<>>
    /\ inventory = <<>>
    /\ donations_log = <<>>
    /\ distributions_log = <<>>
    /\ household_queue = <<>>
    /\ next_household_id = 1
    /\ file_status \in [FileNames -> FileStatuses]
    /\ inventory_file \in Found(file_status["inventory"], FoundInventory)
    /\ donations_file \in Found(file_status["donations"], FoundDonations)
    /\ distributions_file \in Found(file_status["distributions"], FoundDistributions)
    /\ result = [op |-> "none", err |-> NoError]
    /\ returned_ids = <<>>

\* An engine was constructed and is there to be called
EngineUp ==
    /\ result.op # "none"
    /\ ~(result.op = "__init__" /\ result.err # NoError)

NextStartup ==
    \/ ~EngineUp /\ Restart
    \/ EngineUp /\ \E d \in Donors, a \in MoneyAmounts : AddMoneyDonation(d, a)
    \/ EngineUp /\ \E hh \in {Arrival(Len(returned_ids) + 1)} :
                       SignInHousehold(hh[1], hh[2])
    \/ EngineUp /\ \E id \in HouseholdIds, taken \in SessionTakeRequests :
                       RecordDistribution(id, taken)
    \/ EngineUp /\ Restart

SpecStartup == InitStartup /\ [][NextStartup]_vars

(***************************************************************************)
(* The engine under callers that pass any number: the engine's callers     *)
(* (src/src/app_gui.py:352, 409, 426) convert text with int() or float()   *)
(* and pass the result on, whatever its sign.                              *)
(***************************************************************************)

\* item_data with a quantity of either sign
SignedFoodItemData ==
    {[name |-> n, quantity |-> Num(q), expiration_date |-> "2025-12-01"] :
        n \in {"Rice", "rice"}, q \in {-1, 1}}
SignedFoodRequests == SeqsUpTo(SignedFoodItemData, 1)

\* Amounts of either sign, and none
SignedMoneyAmounts == {-5, 0, 5}

\* Sizes as typed at sign-in: a household of four, of none, of less than
\* none, and text that is no number
AnySizes == {Num(4), Num(0), Num(-1), NonNumeric}

NextAnyInput ==
    \/ \E d \in Donors, data \in SignedFoodRequests : AddFoodDonation(d, data)
    \/ \E d \in Donors, a \in SignedMoneyAmounts : AddMoneyDonation(d, a)
    \/ \E size \in AnySizes : SignInHousehold("Smith", size)
    \/ \E id \in HouseholdIds : RemoveHouseholdFromQueue(id)
    \/ \E id \in HouseholdIds, taken \in SessionTakeRequests :
          RecordDistribution(id, taken)

SpecAnyInput == Init /\ [][NextAnyInput]_vars

(***************************************************************************)
(* The queries.  A query returns what its operator computes and assigns    *)
(* nothing (pantry_manager.py:238-261).                                    *)
(***************************************************************************)
GetPantryStatus ==
    /\ Call("get_pantry_status", Returned(Current))
    /\ UNCHANGED returned_ids

GetAnalyticsData ==
    /\ Call("get_analytics_data", Returned(Current))
    /\ UNCHANGED returned_ids

(***************************************************************************)
(* The engine under a caller that also asks the queries.                   *)
(***************************************************************************)
NextQueries ==
    \/ \E d \in Donors, data \in SessionFoodRequests : AddFoodDonation(d, data)
    \/ \E d \in Donors, a \in MoneyAmounts : AddMoneyDonation(d, a)
    \/ \E hh \in {Arrival(Len(returned_ids) + 1)} : SignInHousehold(hh[1], hh[2])
    \/ \E id \in HouseholdIds : RemoveHouseholdFromQueue(id)
    \/ \E id \in HouseholdIds, taken \in SessionTakeRequests :
          RecordDistribution(id, taken)
    \/ GetPantryStatus
    \/ GetAnalyticsData

SpecQueries == Init /\ [][NextQueries]_vars

(***************************************************************************)
(* The engine on a day with a longer queue: up to MaxQueued households     *)
(* sign in, and any of them leaves or is served.                           *)
(***************************************************************************)
SignInQueued(household_name, household_size) ==
    \E r \in {sign_in_household(Current, household_name, household_size)} :
       /\ next_household_id <= MaxQueued
       /\ Call("sign_in_household", r)
       /\ returned_ids' = IF r.err = NoError
                          THEN Append(returned_ids,
                                      r.state.household_queue[
                                          Len(r.state.household_queue)].id)
                          ELSE returned_ids

QueuedHouseholdIds == 1..MaxQueued

NextQueue ==
    \/ \E d \in Donors, data \in SessionFoodRequests : AddFoodDonation(d, data)
    \/ \E hh \in {Arrival(Len(returned_ids) + 1)} : SignInQueued(hh[1], hh[2])
    \/ \E id \in QueuedHouseholdIds : RemoveHouseholdFromQueue(id)
    \/ \E id \in QueuedHouseholdIds, taken \in SessionTakeRequests :
          RecordDistribution(id, taken)

SpecQueue == Init /\ [][NextQueue]_vars

(***************************************************************************)
(* The analytics of an engine constructed on a data folder whose           *)
(* distributions.json holds what earlier sessions logged.                  *)
(***************************************************************************)

\* The records of distributions.json: at most MaxRecords of them, each of at
\* most MaxTaken items.  "Rice" and "rice" differ in case only.
LoggedNames == {"Rice", "rice", "Beans"}
LoggedItems == [name : LoggedNames, quantity : 1..MaxTake]
LoggedRecords ==
    {DistributionRecord(Household(1, "Smith", Num(4)), items) :
        items \in SeqsUpTo(LoggedItems, MaxTaken)}
LoggedDistributions == SeqsUpTo(LoggedRecords, MaxRecords)

InitAnalytics ==
    /\ objects = <<>>
    /\ inventory = <<>>
    /\ donations_log = <<>>
    /\ distributions_log \in LoggedDistributions
    /\ household_queue = <<>>
    /\ next_household_id = 1
    /\ inventory_file = <<>>
    /\ donations_file = <<>>
    /\ distributions_file = distributions_log
    /\ file_status = [f \in FileNames |->
                         IF f = "distributions" THEN "json" ELSE "absent"]
    /\ result = [op |-> "__init__", err |-> NoError]
    /\ returned_ids = <<>>

NextAnalytics ==
    \/ GetPantryStatus
    \/ GetAnalyticsData

SpecAnalytics == InitAnalytics /\ [][NextAnalytics]_vars

----------------------------------------------------------------------------
(***************************************************************************)
(* Vocabulary of the properties.  These definitions restate what the       *)
(* specification says about a call; none of them is used by the model.     *)
(***************************************************************************)

\* The inventory lines of s, in list order, by value
InventoryView(s) == [i \in 1..Len(s.inventory) |-> s.objects[s.inventory[i]]]

\* The ids of the households waiting in s
QueuedIds(s) == {s.household_queue[i].id : i \in 1..Len(s.household_queue)}

\* The queue of s without the household id
QueueWithout(s, id) ==
    LET keep == {i \in 1..Len(s.household_queue) : s.household_queue[i].id # id}
        nth(k) == CHOOSE i \in keep : Cardinality({j \in keep : j < i}) = k - 1
    IN [k \in 1..Cardinality(keep) |-> s.household_queue[nth(k)]]

\* The merge key of an inventory line
Key(item) == <<lower(item.name), item.expiration_date>>

\* The line a requested name is matched to: the first line, in list order,
\* of that name in any spelling; 0 when there is none
MatchedLine(s, name) ==
    LET lines == InventoryView(s)
        same == {i \in 1..Len(lines) : lower(lines[i].name) = lower(name)}
    IN IF same = {} THEN 0 ELSE CHOOSE i \in same : \A j \in same : i <= j

\* The quantity the first k items of a request ask of inventory line i
RECURSIVE Asked(_, _, _, _)
Asked(s, items, k, i) ==
    IF k = 0 THEN 0
    ELSE Asked(s, items, k - 1, i)
         + (IF MatchedLine(s, items[k].name) = i THEN items[k].quantity ELSE 0)

\* The k-th item of a request can be served after the items before it
Servable(s, items, k) ==
    LET i == MatchedLine(s, items[k].name)
    IN i # 0 /\ Asked(s, items, k, i) <= InventoryView(s)[i].quantity

\* The whole request can be served: every name is stocked and no line is
\* asked for more than it holds
Satisfiable(s, items) == \A k \in 1..Len(items) : Servable(s, items, k)

\* The first item of a request that cannot be served, 0 when all can
FirstUnservable(s, items) ==
    LET bad == {k \in 1..Len(items) : ~Servable(s, items, k)}
    IN IF bad = {} THEN 0 ELSE CHOOSE k \in bad : \A j \in bad : k <= j

\* The requests of add_food_donation whose quantities int() accepts
AllNumeric(data) == \A k \in 1..Len(data) : data[k].quantity.kind = "int"

\* The quantity the first k items of a donation bring to the merge key
RECURSIVE DonatedTo(_, _, _)
DonatedTo(data, k, key) ==
    IF k = 0 THEN 0
    ELSE DonatedTo(data, k - 1, key)
         + (IF Key(data[k]) = key THEN data[k].quantity.val ELSE 0)

\* The first item of a donation with the merge key
FirstWithKey(data, key) ==
    CHOOSE k \in 1..Len(data) :
        Key(data[k]) = key /\ \A j \in 1..(k - 1) : Key(data[j]) # key

\* The merge keys a donation brings that no line of s has
NewKeys(s, data) ==
    {Key(data[k]) : k \in 1..Len(data)}
        \ {Key(InventoryView(s)[i]) : i \in 1..Len(s.inventory)}

----------------------------------------------------------------------------
(***************************************************************************)
(* Properties.  A property about a call is stated for every call that can  *)
(* be made in a reachable state.                                           *)
(***************************************************************************)

\* C1: record_distribution is atomic.  A call that fails because a
\* requested item is missing from inventory or asks more than its matched
\* line holds leaves every inventory quantity, the distributions log and
\* the queue as they were before the call.
C1_DistributionAtomic ==
    [][(/\ result'.op = "record_distribution"
        /\ result'.err \in {ValueError("Item not found in inventory"),
                            ValueError("Insufficient stock")})
       => /\ InventoryView(Current)' = InventoryView(Current)
          /\ distributions_log' = distributions_log
          /\ household_queue' = household_queue]_vars

\* C2: after any sequence of calls (food donations of quantity >= 0,
\* distributions of quantity > 0, failing or not) every inventory line, in
\* memory and in inventory.json, has quantity >= 0.
C2_StockNeverNegative ==
    /\ \A i \in 1..Len(inventory) : objects[inventory[i]].quantity >= 0
    /\ \A i \in 1..Len(inventory_file) : inventory_file[i].quantity >= 0

\* A line has been emptied and the last call was a distribution that failed
C2_Witness ==
    /\ result.op = "record_distribution"
    /\ result.err # NoError
    /\ \E i \in 1..Len(inventory) : objects[inventory[i]].quantity = 0

\* C3: no two inventory lines share the pair (lowercased name, expiration
\* date), also after one donation submitted two items of the same pair.
C3_LinesUnique ==
    \A i, j \in 1..Len(inventory) :
        i # j => Key(objects[inventory[i]]) # Key(objects[inventory[j]])

\* One donation carried two items of the same pair, spelled differently
C3_Witness ==
    \E k \in 1..Len(donations_log) :
        /\ donations_log[k].type = "Food"
        /\ Len(donations_log[k].details) = 2
        /\ LET a == objects[donations_log[k].details[1]]
               b == objects[donations_log[k].details[2]]
           IN Key(a) = Key(b) /\ a.name # b.name

\* C4: a Food donation is immutable once logged.  No call changes the
\* name, quantity or expiration date of an item in the details of a
\* donation that is in the log.
C4_DonationImmutable ==
    [][\A k \in 1..Len(donations_log) :
          DonationToDict(objects', donations_log'[k])
              = DonationToDict(objects, donations_log[k])]_vars

\* C5: every distribution record was fully satisfiable when it was
\* recorded: each of its items has a matched line, and the quantities the
\* record takes from one line sum to at most what the line held before the
\* call.
C5_RecordsWereSatisfiable ==
    \A id \in HouseholdIds, taken \in TakeRequests :
        LET r == record_distribution(Current, id, taken)
            log == r.state.distributions_log
        IN Len(log) > Len(distributions_log) =>
              LET items == log[Len(log)].items
              IN \A k \in 1..Len(items) :
                    LET i == MatchedLine(Current, items[k].name)
                    IN /\ i # 0
                       /\ Asked(Current, items, Len(items), i)
                              <= InventoryView(Current)[i].quantity

\* A record took from one line twice
C5_Witness ==
    \E n \in 1..Len(distributions_log) :
        LET items == distributions_log[n].items
        IN /\ Len(items) = 2
           /\ lower(items[1].name) = lower(items[2].name)

\* C6: household ids are unique for the life of the engine.  The k-th
\* successful sign-in returned id k, so no two sign-ins share an id and an
\* id freed by removal or distribution is not handed out again; the
\* waiting households carry ids that were returned, each once.
C6_IdsUnique ==
    /\ \A k \in 1..Len(returned_ids) : returned_ids[k] = k
    /\ next_household_id = Len(returned_ids) + 1
    /\ \A i \in 1..Len(household_queue) :
          household_queue[i].id \in 1..Len(returned_ids)
    /\ \A i, j \in 1..Len(household_queue) :
          i # j => household_queue[i].id # household_queue[j].id

\* A household signed in after the only earlier one had left the queue
C6_Witness ==
    /\ result.op = "sign_in_household"
    /\ Len(returned_ids) = 2
    /\ QueuedIds(Current) = {2}

\* C7: a distribution for a queued household whose request can be served
\* succeeds; it takes from each matched line what the request asks of it,
\* appends one record with the household's name and size and the requested
\* items, and removes the household from the queue.
C7_DistributionEffect ==
    \A id \in QueuedIds(Current), taken \in TakeRequests :
        LET r == record_distribution(Current, id, taken)
            h == CHOOSE x \in 1..Len(household_queue) : household_queue[x].id = id
            new == r.state.distributions_log
        IN Satisfiable(Current, taken) =>
              /\ r.err = NoError
              /\ Len(InventoryView(r.state)) = Len(inventory)
              /\ \A i \in 1..Len(inventory) :
                    InventoryView(r.state)[i] =
                        [InventoryView(Current)[i] EXCEPT
                            !.quantity = @ - Asked(Current, taken, Len(taken), i)]
              /\ Len(new) = Len(distributions_log) + 1
              /\ SubSeq(new, 1, Len(distributions_log)) = distributions_log
              /\ new[Len(new)].household_name = household_queue[h].name
              /\ new[Len(new)].household_size = household_queue[h].size
              /\ new[Len(new)].items = taken
              /\ r.state.household_queue = QueueWithout(Current, id)

\* A distribution of two items to the second household in the queue succeeded
C7_Witness ==
    /\ result = [op |-> "record_distribution", err |-> NoError]
    /\ Len(distributions_log) = 1
    /\ Len(distributions_log[1].items) = 2
    /\ distributions_log[1].household_name = "Jones"
    /\ QueuedIds(Current) = {1}

\* C8: a distribution for an id that is not in the queue fails with the
\* household-not-found error and changes nothing, whatever is requested.
C8_UnknownHousehold ==
    \A id \in HouseholdIds \ QueuedIds(Current), taken \in TakeRequests :
        LET r == record_distribution(Current, id, taken)
        IN /\ r.err = ValueError("Household not found in queue")
           /\ r.state = Current

\* Such a call was made while another household waited and food was in stock
C8_Witness ==
    /\ result = [op |-> "record_distribution",
                 err |-> ValueError("Household not found in queue")]
    /\ household_queue # <<>>
    /\ \E i \in 1..Len(inventory) : objects[inventory[i]].quantity > 0

C10_SameItemTwice ==
    \A id \in QueuedIds(Current), taken \in TakeRequests :
        LET r == record_distribution(Current, id, taken)
            i == MatchedLine(Current, taken[1].name)
            stock == InventoryView(Current)[i].quantity
            sum == taken[1].quantity + taken[2].quantity
        IN (/\ Len(taken) = 2
            /\ lower(taken[1].name) = lower(taken[2].name)
            /\ i # 0) =>
              /\ r.err = NoError <=> sum <= stock
              /\ r.err = NoError => InventoryView(r.state)[i].quantity = stock - sum
              /\ r.err # NoError => InventoryView(r.state)[i].quantity = stock

\* C11: add_food_donation merges without regard to case.  A line whose
\* lowercased name and date equal those of submitted items keeps its stored
\* name and grows by their quantities; each pair no line has yet gets
\* exactly one new line, appended in the order submitted, with the name as
\* first submitted, the date and the quantity submitted for the pair; and
\* the donations log grows by exactly one Food entry of that donor.
C11_MergeEffect ==
    \A d \in Donors, data \in FoodRequests :
        AllNumeric(data) =>
            LET r == add_food_donation(Current, d, data)
                before == InventoryView(Current)
                after == InventoryView(r.state)
                log == r.state.donations_log
            IN /\ r.err = NoError
               /\ Len(after) = Len(before) + Cardinality(NewKeys(Current, data))
               /\ \A i \in 1..Len(before) :
                     after[i] = [before[i] EXCEPT
                                    !.quantity = @ + DonatedTo(data, Len(data),
                                                               Key(before[i]))]
               /\ \A i \in (Len(before) + 1)..Len(after) :
                     /\ Key(after[i]) \in NewKeys(Current, data)
                     /\ after[i].name = data[FirstWithKey(data, Key(after[i]))].name
                     /\ after[i].quantity = DonatedTo(data, Len(data), Key(after[i]))
                     /\ \A j \in (Len(before) + 1)..(i - 1) :
                           FirstWithKey(data, Key(after[j]))
                               < FirstWithKey(data, Key(after[i]))
               /\ Len(log) = Len(donations_log) + 1
               /\ SubSeq(log, 1, Len(donations_log)) = donations_log
               /\ log[Len(log)].type = "Food"
               /\ log[Len(log)].donor = d
               /\ Len(log[Len(log)].details) = Len(data)

\* "rice" was donated into the line "Rice": one line, named as stored, that
\* holds both donations
C11_Witness ==
    /\ result = [op |-> "add_food_donation", err |-> NoError]
    /\ Len(donations_log) = 2
    /\ donations_log[2].type = "Food"
    /\ Len(donations_log[2].details) = 1
    /\ objects[donations_log[2].details[1]].name = "rice"
    /\ InventoryView(Current) =
          <<[name |-> "Rice", quantity |-> 2, expiration_date |-> "2025-12-01"]>>

\* C12: a food donation of items with quantities >= 0 removes no inventory
\* line and leaves no line that existed before the call with a smaller
\* quantity than it had.
C12_DonationNeverDecreases ==
    \A d \in Donors, data \in FoodRequests :
        (/\ AllNumeric(data)
         /\ \A k \in 1..Len(data) : data[k].quantity.val >= 0) =>
            LET r == add_food_donation(Current, d, data)
                before == InventoryView(Current)
                after == InventoryView(r.state)
            IN /\ Len(after) >= Len(before)
               /\ \A i \in 1..Len(before) :
                     /\ Key(after[i]) = Key(before[i])
                     /\ after[i].quantity >= before[i].quantity

\* A donation of quantity 0 was merged into a line that was already there
C12_Witness ==
    /\ result = [op |-> "add_food_donation", err |-> NoError]
    /\ Len(donations_log) = 2
    /\ \A k \in 1..2 : donations_log[k].type = "Food"
    /\ InventoryView(Current) =
          <<[name |-> "Beans", quantity |-> 0, expiration_date |-> "2026-01-01"]>>

\* Donations of which at least one item has a quantity that is no number,
\* in any position
InvalidFoodRequests ==
    {data \in SeqsUpTo(FoodItemData \cup
                          {[name |-> l[1], quantity |-> NonNumeric,
                            expiration_date |-> l[2]] : l \in Lines},
                      MaxDetail) :
        ~AllNumeric(data)}

\* C13: add_food_donation is all-or-nothing.  When an item of the list has
\* a quantity that is no number the call fails and the inventory, the
\* donations log and the three files are as before the call, also when
\* items earlier in the list were valid.
C13_DonationAllOrNothing ==
    \A d \in Donors, data \in InvalidFoodRequests :
        LET r == add_food_donation(Current, d, data)
        IN /\ r.err # NoError
           /\ InventoryView(r.state) = InventoryView(Current)
           /\ DonationsToSave(r.state.objects, r.state.donations_log)
                 = DonationsToSave(objects, donations_log)
           /\ r.state.distributions_log = distributions_log
           /\ r.state.inventory_file = inventory_file
           /\ r.state.donations_file = donations_file
           /\ r.state.distributions_file = distributions_file

\* A donation whose second item was invalid failed while the line its first
\* item would merge into was in stock
C13_Witness ==
    /\ result.op = "add_food_donation"
    /\ result.err # NoError
    /\ \E i \in 1..Len(inventory) :
          Key(objects[inventory[i]]) = Key(BadFoodRequest[1])

\* C14: construction keeps quantities non-negative.  A food donation, also
\* one that submits a quantity below zero, leaves no stored item (inventory
\* line or item of a logged donation) with a negative quantity and no
\* inventory line with less than it held before the call.
C14_NegativeNeverStored ==
    [][result'.op = "add_food_donation" =>
          /\ \A i \in 1..Len(objects') : objects'[i].quantity >= 0
          /\ \A i \in 1..Len(inventory) :
                InventoryView(Current)'[i].quantity
                    >= InventoryView(Current)[i].quantity]_vars

\* C15: add_money_donation with an amount of zero or less fails with a
\* ValidationError and appends nothing to the donations log; with a
\* positive amount it appends exactly one Money donation whose details are
\* the amount.  No Money donation in the log has details of zero or less.
C15_MoneyValidated ==
    /\ \A d \in Donors, a \in SignedMoneyAmounts :
          LET r == add_money_donation(Current, d, a)
              log == r.state.donations_log
          IN IF a <= 0
             THEN /\ r.err.type = "ValidationError"
                  /\ log = donations_log
             ELSE /\ r.err = NoError
                  /\ Len(log) = Len(donations_log) + 1
                  /\ SubSeq(log, 1, Len(donations_log)) = donations_log
                  /\ log[Len(log)].type = "Money"
                  /\ log[Len(log)].details = a
    /\ \A k \in 1..Len(donations_log) :
          donations_log[k].type = "Money" => donations_log[k].details > 0

\* C16: sign_in_household with a size below 1 or a size that is no number
\* fails with a ValidationError and leaves the queue and the next id as
\* they were; every household in the queue has a size of at least 1.
C16_SizeValidated ==
    /\ \A size \in AnySizes :
          LET r == sign_in_household(Current, "Smith", size)
          IN (size.kind # "int" \/ size.val < 1) =>
                /\ r.err.type = "ValidationError"
                /\ r.state.household_queue = household_queue
                /\ r.state.next_household_id = next_household_id
    /\ \A i \in 1..Len(household_queue) : household_queue[i].size >= 1

\* C17: remove_household_from_queue with the id of a waiting household
\* removes that household and nothing else: the other households keep
\* their order, and inventory, both logs, the next id and the files are as
\* before.  With an id that is not waiting it fails with the error that
\* says the household could not be found, and nothing changes.
C17_RemoveFromQueue ==
    \A id \in HouseholdIds :
        LET r == remove_household_from_queue(Current, id)
        IN IF id \in QueuedIds(Current)
           THEN /\ r.err = NoError
                /\ r.state = [Current EXCEPT
                                 !.household_queue = QueueWithout(Current, id)]
           ELSE /\ r.err = ValueError("Could not find household to remove")
                /\ r.state = Current

\* The second of two waiting households was removed while food was in stock
C17_Witness ==
    /\ result = [op |-> "remove_household_from_queue", err |-> NoError]
    /\ Len(returned_ids) = 2
    /\ QueuedIds(Current) = {1}
    /\ inventory # <<>>

\* The ids that were handed out at sign-in and wait no more
LeftIds == {returned_ids[k] : k \in 1..Len(returned_ids)} \ QueuedIds(Current)

\* C18: served and removed are terminal.  An id that has left the queue,
\* by a distribution or by removal, is never in the queue again, and every
\* later record_distribution or remove_household_from_queue for it fails.
C18_LifecycleTerminal ==
    /\ [](\A id \in LeftIds :
             /\ remove_household_from_queue(Current, id).err # NoError
             /\ \A taken \in TakeRequests :
                   record_distribution(Current, id, taken).err # NoError)
    /\ [][\A id \in LeftIds : id \notin QueuedIds(Current)']_vars

\* Household 1 has left, household 2 has signed in since, and a
\* distribution for household 1 has just failed
C18_Witness ==
    /\ result = [op |-> "record_distribution",
                 err |-> ValueError("Household not found in queue")]
    /\ LeftIds = {1}
    /\ QueuedIds(Current) = {2}

\* C19: persistence is write-through.  Between calls, whether the last
\* call returned or raised, each of the three files holds the serialised
\* collection that is in memory.
C19_WriteThrough ==
    /\ inventory_file = InventoryToSave(objects, inventory)
    /\ donations_file = DonationsToSave(objects, donations_log)
    /\ distributions_file = distributions_log

\* C20: the queue lives for one session.  A new engine on the same data
\* folder starts with an empty queue and the next id at 1, and its
\* inventory, donations log and distributions log are what the files held
\* when the engine before it ended; the files are not rewritten.
C20_SessionOnlyQueue ==
    [][result'.op = "__init__" =>
          /\ household_queue' = <<>>
          /\ next_household_id' = 1
          /\ InventoryToSave(objects', inventory') = inventory_file
          /\ DonationsToSave(objects', donations_log') = donations_file
          /\ distributions_log' = distributions_file
          /\ inventory_file' = inventory_file
          /\ donations_file' = donations_file
          /\ distributions_file' = distributions_file]_vars

\* An engine has just started on a folder in which a food donation and a
\* distribution had been saved
C20_Witness ==
    /\ result.op = "__init__"
    /\ inventory # <<>>
    /\ \E k \in 1..Len(donations_log) : donations_log[k].type = "Food"
    /\ distributions_log # <<>>
    /\ household_queue = <<>>

\* C21: saving and then loading is a round trip.  In every reachable state,
\* also one whose memory differs from the files, the engine that loads what
\* _save_data writes has the same inventory lines, the same donations (a
\* Food donation with its list of items, a Money donation with its bare
\* amount) and the same distribution records, in the same order and with
\* equal fields.
C21_RoundTrip ==
    LET saved == save_data(Current)
        loaded == load_all_data(saved)
    IN /\ InventoryView(loaded) = InventoryView(Current)
       /\ Len(loaded.donations_log) = Len(donations_log)
       /\ \A k \in 1..Len(donations_log) :
             LET was == donations_log[k]
                 is == loaded.donations_log[k]
             IN /\ is.donor = was.donor
                /\ is.type = was.type
                /\ is.date = was.date
                /\ IF was.type = "Food"
                   THEN /\ Len(is.details) = Len(was.details)
                        /\ \A i \in 1..Len(was.details) :
                              loaded.objects[is.details[i]] = objects[was.details[i]]
                   ELSE is.details = was.details
       /\ loaded.distributions_log = distributions_log

\* A Food donation, a Money donation and a distribution are in memory, and
\* a failed distribution has left memory different from inventory.json
C21_Witness ==
    /\ \E k \in 1..Len(donations_log) : donations_log[k].type = "Food"
    /\ \E k \in 1..Len(donations_log) : donations_log[k].type = "Money"
    /\ distributions_log # <<>>
    /\ inventory_file # InventoryView(Current)

\* The collection an engine holds for a file
Collection(f) ==
    CASE f = "inventory" -> inventory
      [] f = "donations" -> donations_log
      [] f = "distributions" -> distributions_log

\* C22: loading is tolerant.  Whatever the three files are, the
\* constructor returns without raising, and the collection of a file that
\* is missing or malformed is empty in the engine it returns.
C22_TolerantLoad ==
    result.op = "__init__" =>
        /\ result.err = NoError
        /\ \A f \in FileNames :
              file_status[f] # "json" => Collection(f) = <<>>

\* The lines of s, among those a search term selects, that hold something
StockedLines(s, term) ==
    {i \in 1..Len(s.inventory) :
        /\ InventoryView(s)[i].quantity > 0
        /\ Contains(lower(InventoryView(s)[i].name), term)}

\* All of a view's rows show a quantity above 0, and there are as many rows
\* as lines that hold something
OnlyStocked(rows, n) ==
    /\ Len(rows) = n
    /\ \A k \in 1..Len(rows) : rows[k][2] > 0

\* C23: no call removes an inventory line.  Every line keeps its place,
\* name and date across every call; a successful distribution leaves the
\* lines it emptied in inventory and in inventory.json with quantity 0;
\* and the views of the inventory (the searchable list, the inventory
\* window, the command-line listing) show exactly the lines with a
\* quantity above 0.
C23_LinesNeverRemoved ==
    /\ [](/\ \A term \in SearchTerms :
                OnlyStocked(refresh_inventory_view(Current, term),
                            Cardinality(StockedLines(Current, term)))
          /\ OnlyStocked(inventory_window(Current),
                         Cardinality(StockedLines(Current, "")))
          /\ inventory_file # <<>> =>
                OnlyStocked(view_inventory(inventory_file),
                            Cardinality({i \in 1..Len(inventory_file) :
                                            inventory_file[i].quantity > 0})))
    /\ [][/\ Len(inventory') >= Len(inventory)
          /\ \A i \in 1..Len(inventory) :
                /\ InventoryView(Current)'[i].name = InventoryView(Current)[i].name
                /\ InventoryView(Current)'[i].expiration_date
                      = InventoryView(Current)[i].expiration_date
          /\ result' = [op |-> "record_distribution", err |-> NoError] =>
                /\ Len(inventory_file') = Len(inventory')
                /\ \A i \in 1..Len(inventory') :
                      inventory_file'[i] = InventoryView(Current)'[i]]_vars

\* A distribution has emptied one line and left another stocked: the empty
\* line is in memory and in the file, and the list shows the other only
C23_Witness ==
    /\ result = [op |-> "record_distribution", err |-> NoError]
    /\ Len(inventory) = 2
    /\ \E i \in 1..2 : /\ InventoryView(Current)[i].quantity = 0
                        /\ inventory_file[i].quantity = 0
    /\ Len(refresh_inventory_view(Current, "")) = 1

\* C24: in every reachable state get_pantry_status returns the number of
\* households in the queue and the number of inventory lines with a
\* quantity above 0; a line that holds nothing is not counted, and two
\* lines of one name count as two.
C24_PantryStatus ==
    get_pantry_status(Current) =
        [households_waiting |->
             Len(household_queue),
         unique_items_in_inventory |->
             Cardinality({i \in 1..Len(inventory) :
                             objects[inventory[i]].quantity > 0})]

\* Two households wait; of two lines one holds nothing
C24_Witness ==
    /\ Len(household_queue) = 2
    /\ Len(inventory) = 2
    /\ get_pantry_status(Current).unique_items_in_inventory = 1


(***************************************************************************)
(* The analytics.                                                          *)
(***************************************************************************)

\* The items of the first n records of a log, in the order they were logged
RECURSIVE TakenItems(_, _)
TakenItems(log, n) ==
    IF n = 0 THEN <<>> ELSE TakenItems(log, n - 1) \o log[n].items

\* The quantity the first k of these items give to the name as written
RECURSIVE TakenOf(_, _, _)
TakenOf(items, k, name) ==
    IF k = 0 THEN 0
    ELSE TakenOf(items, k - 1, name)
         + (IF items[k].name = name THEN items[k].quantity ELSE 0)

\* Where a name is first met in these items
FirstTaken(items, name) ==
    CHOOSE k \in 1..Len(items) :
        items[k].name = name /\ \A j \in 1..(k - 1) : items[j].name # name

\* C25: get_analytics_data has one entry for each name written in the
\* distribution records, names differing in case apart, no entry for any
\* other name, and the entry of a name holds the sum of the quantities
\* the records give to it.
C25_AnalyticsTotals ==
    LET data == get_analytics_data(Current)
        items == TakenItems(distributions_log, Len(distributions_log))
    IN /\ \A k \in 1..Len(data) :
             /\ \E i \in 1..Len(items) : items[i].name = data[k][1]
             /\ data[k][2] = TakenOf(items, Len(items), data[k][1])
       /\ \A i \in 1..Len(items) :
             \E k \in 1..Len(data) : data[k][1] = items[i].name
       /\ \A j, k \in 1..Len(data) : data[j][1] = data[k][1] => j = k

\* Two records give Rice three in all and rice one: two entries
C25_Witness ==
    LET data == get_analytics_data(Current)
    IN /\ result.op = "get_analytics_data"
       /\ Len(distributions_log) = 2
       /\ \E i \in 1..Len(distributions_log[1].items) :
             distributions_log[1].items[i] = [name |-> "Rice", quantity |-> 1]
       /\ \E i \in 1..Len(distributions_log[2].items) :
             distributions_log[2].items[i] = [name |-> "Rice", quantity |-> 2]
       /\ \E k \in 1..Len(data) : data[k] = <<"Rice", 3>>
       /\ \E k \in 1..Len(data) : data[k] = <<"rice", 1>>

\* C26: the entries of get_analytics_data come largest total first, and of
\* two names with the same total the one met first in the log comes first.
C26_AnalyticsOrder ==
    LET data == get_analytics_data(Current)
        items == TakenItems(distributions_log, Len(distributions_log))
    IN \A j, k \in 1..Len(data) :
          j < k =>
             /\ data[j][2] >= data[k][2]
             /\ data[j][2] = data[k][2] =>
                   FirstTaken(items, data[j][1]) < FirstTaken(items, data[k][1])

\* Beans is met last and comes first; Rice and rice tie and keep their order
C26_Witness ==
    LET items == TakenItems(distributions_log, Len(distributions_log))
    IN /\ result.op = "get_analytics_data"
       /\ Len(items) > 0
       /\ items[1].name = "Rice"
       /\ items[Len(items)].name = "Beans"
       /\ get_analytics_data(Current) = <<<<"Beans", 2>>, <<"Rice", 1>>, <<"rice", 1>>>>

(***************************************************************************)
(* The ledger.                                                             *)
(***************************************************************************)

\* The items the first k donations of the log show, Food donations only
RECURSIVE DonatedItems(_, _)
DonatedItems(s, k) ==
    IF k = 0 THEN <<>>
    ELSE DonatedItems(s, k - 1)
         \o (IF s.donations_log[k].type = "Food"
             THEN DonationToDict(s.objects, s.donations_log[k]).details
             ELSE <<>>)

\* The quantity the first k of these items hold of a name, case ignored
RECURSIVE QuantityOf(_, _, _)
QuantityOf(items, k, name) ==
    IF k = 0 THEN 0
    ELSE QuantityOf(items, k - 1, name)
         + (IF lower(items[k].name) = lower(name) THEN items[k].quantity ELSE 0)

InStock(s, name) == QuantityOf(InventoryView(s), Len(s.inventory), name)
Donated(s, name) ==
    LET items == DonatedItems(s, Len(s.donations_log))
    IN QuantityOf(items, Len(items), name)
Distributed(s, name) ==
    LET items == TakenItems(s.distributions_log, Len(s.distributions_log))
    IN QuantityOf(items, Len(items), name)

\* C27: ledger conservation.  In every state reached from an empty store,
\* after calls that returned and calls that raised, the inventory holds of
\* each name what the Food donations of the log gave of it less what the
\* distribution records took of it.
C27_LedgerConservation ==
    \A name \in TakeNames :
        InStock(Current, name) = Donated(Current, name) - Distributed(Current, name)

(***************************************************************************)
(* The line a distribution takes from.                                     *)
(***************************************************************************)

\* C28: record_distribution matches a requested item to the first inventory
\* line, in list order, of that name with case ignored, whatever the line's
\* date and quantity.  A line that is not the first of a requested name is
\* left as it is, a call that returns has taken from each first line what
\* the request asks of the name, and when the first item that cannot be
\* served has a line, the call fails with "Insufficient stock", even if a
\* later line of the name holds enough.
C28_FirstLineMatched ==
    \A id \in QueuedIds(Current), taken \in TakeRequests :
        LET r == record_distribution(Current, id, taken)
            before == InventoryView(Current)
            after == InventoryView(r.state)
            bad == FirstUnservable(Current, taken)
        IN /\ Len(after) = Len(before)
           /\ \A i \in 1..Len(before) :
                 (\A k \in 1..Len(taken) : MatchedLine(Current, taken[k].name) # i)
                     => after[i] = before[i]
           /\ r.err = NoError =>
                 \A i \in 1..Len(before) :
                     after[i].quantity
                         = before[i].quantity - Asked(Current, taken, Len(taken), i)
           /\ (bad # 0 /\ MatchedLine(Current, taken[bad].name) # 0) =>
                 r.err = ValueError("Insufficient stock")

\* The first Rice line is empty, a later Rice line is not, and the last
\* call asked for rice and failed for insufficient stock
C28_Witness ==
    /\ result.op = "record_distribution"
    /\ result.err = ValueError("Insufficient stock")
    /\ Len(inventory) = 2
    /\ lower(objects[inventory[1]].name) = "rice"
    /\ lower(objects[inventory[2]].name) = "rice"
    /\ objects[inventory[1]].quantity = 0
    /\ objects[inventory[2]].quantity > 0
    /\ household_queue # <<>>

(***************************************************************************)
(* What a call leaves alone.                                               *)
(***************************************************************************)

\* The engine and its files after the step
After ==
    [objects |-> objects',
     inventory |-> inventory',
     donations_log |-> donations_log',
     distributions_log |-> distributions_log',
     household_queue |-> household_queue',
     next_household_id |-> next_household_id',
     inventory_file |-> inventory_file',
     donations_file |-> donations_file',
     distributions_file |-> distributions_file',
     file_status |-> file_status']

\* The donations log of s as it reads, items and all
DonationsView(s) ==
    [k \in 1..Len(s.donations_log) |-> DonationToDict(s.objects, s.donations_log[k])]

SameQueue == household_queue' = household_queue
SameNextId == next_household_id' = next_household_id
SameDistributions == distributions_log' = distributions_log
SameInventory == InventoryView(After) = InventoryView(Current)
SameDonations == DonationsView(After) = DonationsView(Current)

\* C29: a call touches only its own collections.  The two donation calls
\* leave the queue, the next id and the distributions log as they were,
\* and add_money_donation the inventory too; sign_in_household leaves the
\* inventory and both logs; record_distribution leaves the donations log
\* and the next id; the queries leave everything.
C29_FrameEffects ==
    [][LET op == result'.op
       IN /\ op \in {"add_food_donation", "add_money_donation"} =>
                SameQueue /\ SameNextId /\ SameDistributions
          /\ op = "add_money_donation" => SameInventory
          /\ op = "sign_in_household" =>
                SameInventory /\ SameDonations /\ SameDistributions
          /\ op = "record_distribution" => SameDonations /\ SameNextId
          /\ op \in {"get_pantry_status", "get_analytics_data"} =>
                After = Current]_vars

(***************************************************************************)
(* The order of the queue.                                                 *)
(***************************************************************************)

\* The ids of the queue of s, in queue order
IdsInOrder(s) == [i \in 1..Len(s.household_queue) |-> s.household_queue[i].id]

\* Where the household with this id waits in the queue of s
PositionOf(s, id) ==
    CHOOSE i \in 1..Len(s.household_queue) : s.household_queue[i].id = id

\* C30: the queue keeps sign-in order.  In every reachable state the ids
\* grow strictly along the queue and are all below the next id, and a
\* removal or a distribution leaves the households that still wait in the
\* order they had.
C30_QueueOrder ==
    /\ [](LET ids == IdsInOrder(Current)
          IN /\ \A i, j \in 1..Len(ids) : i < j => ids[i] < ids[j]
             /\ \A i \in 1..Len(ids) : ids[i] < next_household_id)
    /\ [][result'.op \in {"remove_household_from_queue", "record_distribution"} =>
            /\ QueuedIds(After) \subseteq QueuedIds(Current)
            /\ \A a, b \in QueuedIds(After) :
                  PositionOf(Current, a) < PositionOf(Current, b)
                      <=> PositionOf(After, a) < PositionOf(After, b)]_vars

\* Three households signed in and the second was served: the first and the
\* third wait, in that order
C30_Witness ==
    /\ result = [op |-> "record_distribution", err |-> NoError]
    /\ Len(returned_ids) = 3
    /\ IdsInOrder(Current) = <<1, 3>>

====
